---------------------------- MODULE Spec2Model ----------------------------
(***************************************************************************)
(* Verification model of the workspace UI state logic:                     *)
(*   - the sidebar store (stores/sidebar/store.ts): clamped setters and    *)
(*     the constraint validation run after rehydration;                    *)
(*   - folder drag and drop (sidebar/hooks/use-drag-drop.ts);              *)
(*   - copilot file attachments (user-input/hooks/use-file-attachments.ts);*)
(*   - copilot initialization and unmount cleanup                         *)
(*     (copilot/hooks/use-copilot-initialization.ts, copilot/copilot.tsx); *)
(*   - the two loaders of the user's enabled models                        *)
(*     (use-model-selection.ts, use-copilot-initialization.ts).            *)
(* Each subsystem has its own specification; the variables of the other    *)
(* subsystems are held at their initial values.                            *)
(***************************************************************************)
EXTENDS Integers, Sequences, FiniteSets, TLC

VARIABLES
    \* ---- sidebar store ----
    inBrowser,        \* typeof window !== 'undefined'
    sidebarWidth,     \* SidebarState.sidebarWidth
    triggersHeight,   \* SidebarState.triggersHeight
    blocksHeight,     \* SidebarState.blocksHeight
    css,              \* the CSS custom properties on document.documentElement
    lastOp,           \* the store operation that ran last
    hasState,         \* onRehydrateStorage: the callback's state argument is defined
    \* ---- folder drag and drop ----
    parent,           \* folder store: folder id -> parentId (NoFolder for null)
    workflowFolder,   \* workflow registry: workflow id -> folderId (NoFolder for null)
    dragOverFolderId, \* useDragDrop state
    rootDragOver,     \* useDragDrop state
    lastDrop,         \* what the last handleFolderDrop did
    \* ---- copilot file attachments ----
    userId,           \* useFileAttachments props: userId is set
    attachedFiles,    \* useState<AttachedFile[]>
    calls,            \* the processFiles invocations: where each one is suspended
    nextId,           \* the ids crypto.randomUUID() has handed out so far
    lastEvent,        \* what the last step of the hook did
    \* ---- copilot component and useCopilotInitialization ----
    activeWorkflowId,       \* useWorkflowRegistry().activeWorkflowId
    isLoadingChats,         \* useCopilotStore().isLoadingChats
    chatsLoadedForWorkflow, \* useCopilotStore().chatsLoadedForWorkflow
    isSendingMessage,       \* useCopilotStore().isSendingMessage
    copilotWorkflowId,      \* useCopilotStore().workflowId, set by setCopilotWorkflowId
    mounted,                \* the Copilot component is mounted
    rendered,               \* the values the last render (and its effect closures) saw
    isInitialized,          \* useState(false)
    lastWorkflowIdRef,      \* useRef<string | null>(null)
    hasMountedRef,          \* useRef(false)
    initFor,                \* the workflow of the hook's last (re)initialization
    lastStep,               \* the store calls made by the last step
    \* ---- enabled models ----
    enabledModels,        \* useCopilotStore().enabledModels: None or Some(array)
    isFetchingRef,        \* useModelSelection: useRef(false)
    selectionInFlight,    \* requests of fetchEnabledModelsOnce not yet settled
    selectionRequests,    \* requests fetchEnabledModelsOnce has issued
    hasLoadedModelsRef,   \* useCopilotInitialization: useRef(false)
    loadState,            \* the fetch of loadEnabledModels: "none", "inFlight", "settled"
    loadRequests,         \* requests loadEnabledModels has issued
    loadSetCalls,         \* setEnabledModels calls loadEnabledModels has made
    lastLoad,             \* outcome and argument of its last setEnabledModels call
    effectRuns            \* runs of the effect that calls loadEnabledModels

sidebarVars == <<inBrowser, sidebarWidth, triggersHeight, blocksHeight, css, lastOp, hasState>>

folderVars == <<parent, workflowFolder, dragOverFolderId, rootDragOver, lastDrop>>

uploadVars == <<userId, attachedFiles, calls, nextId, lastEvent>>

copilotVars == <<activeWorkflowId, isLoadingChats, chatsLoadedForWorkflow, isSendingMessage,
                 copilotWorkflowId, mounted, rendered, isInitialized, lastWorkflowIdRef,
                 hasMountedRef, initFor, lastStep>>

modelVars == <<enabledModels, isFetchingRef, selectionInFlight, selectionRequests,
               hasLoadedModelsRef, loadState, loadRequests, loadSetCalls, lastLoad, effectRuns>>

vars == <<sidebarVars, folderVars, uploadVars, copilotVars, modelVars>>

-----------------------------------------------------------------------------
(* Generic helpers                                                         *)

Max2(a, b) == IF a >= b THEN a ELSE b
Min2(a, b) == IF a <= b THEN a ELSE b
\* Math.max / Math.min with three arguments
Max3(a, b, c) == Max2(a, Max2(b, c))
Min3(a, b, c) == Min2(a, Min2(b, c))

\* the template literal `${n}px`
Px(n) == ToString(n) \o "px"

-----------------------------------------------------------------------------
(* Sidebar store: stores/sidebar/store.ts                                  *)

DEFAULT_SIDEBAR_WIDTH == 232
MIN_SIDEBAR_WIDTH == 232
MAX_SIDEBAR_WIDTH == 400
DEFAULT_TRIGGERS_HEIGHT == 200
DEFAULT_BLOCKS_HEIGHT == 200
MIN_HEIGHT == 28
MAX_HEIGHT == 500
HEADER_HEIGHT == 28

\* Bounds of the numeric arguments the setters are called with.
HeightStep == 36
MaxHeightSteps == 15
WidthStep == 60
MaxWidthSteps == 8

\* A grid from below MIN_HEIGHT to above MAX_HEIGHT, and the values next to
\* every threshold of the clamps.
HeightArgs ==
    {HeightStep * k - HeightStep : k \in 0..MaxHeightSteps}
    \cup {MIN_HEIGHT + d : d \in {-1, 0, 1}}
    \cup {MAX_HEIGHT + d : d \in {-1, 0, 1}}
    \cup {MIN_HEIGHT + HEADER_HEIGHT + d : d \in {-1, 0, 1}}
    \cup {DEFAULT_BLOCKS_HEIGHT + HEADER_HEIGHT + d : d \in {-1, 0, 1}}
    \cup {DEFAULT_TRIGGERS_HEIGHT - HEADER_HEIGHT + d : d \in {-1, 0, 1}}
    \cup {MAX_HEIGHT - HEADER_HEIGHT, MAX_HEIGHT + HEADER_HEIGHT, DEFAULT_TRIGGERS_HEIGHT}

WidthArgs ==
    {WidthStep * k - WidthStep : k \in 0..MaxWidthSteps}
    \cup {MIN_SIDEBAR_WIDTH + d : d \in {-1, 0, 1}}
    \cup {MAX_SIDEBAR_WIDTH + d : d \in {-1, 0, 1}}

CssUnset == [sidebarWidth |-> "", triggersHeight |-> "", blocksHeight |-> ""]

\* The state the store is created with (the first argument of persist).
SidebarDefaults ==
    /\ sidebarWidth = DEFAULT_SIDEBAR_WIDTH
    /\ triggersHeight = DEFAULT_TRIGGERS_HEIGHT
    /\ blocksHeight = DEFAULT_BLOCKS_HEIGHT
    /\ css = CssUnset
    /\ lastOp = "create"
    /\ hasState = TRUE

\* setSidebarWidth: clampedWidth
ClampSidebarWidth(width) ==
    Max2(MIN_SIDEBAR_WIDTH, Min2(MAX_SIDEBAR_WIDTH, width))

\* setTriggersHeight: clampedHeight
ClampTriggersHeight(height, currentBlocksHeight) ==
    LET minAllowedHeight == currentBlocksHeight + HEADER_HEIGHT
    IN  Max3(minAllowedHeight, MIN_HEIGHT, Min2(MAX_HEIGHT, height))

\* A clamp that forgets the triggers constraint.
ClampBlocksHeightNoConstraint(height, currentTriggersHeight) ==
    Max2(MIN_HEIGHT, Min2(MAX_HEIGHT, height))

\* setBlocksHeight: clampedHeight
ClampBlocksHeight(height, currentTriggersHeight) ==
    LET maxAllowedHeight == currentTriggersHeight - HEADER_HEIGHT
    IN  Max2(MIN_HEIGHT, Min3(maxAllowedHeight, MAX_HEIGHT, height))

setSidebarWidth(width) ==
    LET clampedWidth == ClampSidebarWidth(width)
    IN  /\ sidebarWidth' = clampedWidth
        /\ css' = IF inBrowser THEN [css EXCEPT !.sidebarWidth = Px(clampedWidth)] ELSE css
        /\ lastOp' = "setSidebarWidth"
        /\ UNCHANGED <<inBrowser, triggersHeight, blocksHeight, hasState>>

setTriggersHeight(height) ==
    LET clampedHeight == ClampTriggersHeight(height, blocksHeight)
    IN  /\ triggersHeight' = clampedHeight
        /\ css' = IF inBrowser THEN [css EXCEPT !.triggersHeight = Px(clampedHeight)] ELSE css
        /\ lastOp' = "setTriggersHeight"
        /\ UNCHANGED <<inBrowser, sidebarWidth, blocksHeight, hasState>>

setBlocksHeight(height) ==
    LET clampedHeight == ClampBlocksHeight(height, triggersHeight)
    IN  /\ blocksHeight' = clampedHeight
        /\ css' = IF inBrowser THEN [css EXCEPT !.blocksHeight = Px(clampedHeight)] ELSE css
        /\ lastOp' = "setBlocksHeight"
        /\ UNCHANGED <<inBrowser, sidebarWidth, triggersHeight, hasState>>

SetSidebarWidth == \E width \in WidthArgs : setSidebarWidth(width)
SetTriggersHeight == \E height \in HeightArgs : setTriggersHeight(height)
SetBlocksHeight == \E height \in HeightArgs : setBlocksHeight(height)

\* onRehydrateStorage with the first validation left out.
ValidTriggersHeightSkipped(t, b) == t

\* onRehydrateStorage: the local triggersHeight after the first validation
ValidTriggersHeight(t, b) ==
    LET minTriggersHeight == b + HEADER_HEIGHT
    IN  IF t < minTriggersHeight
        THEN Max2(minTriggersHeight, DEFAULT_TRIGGERS_HEIGHT)
        ELSE t

\* onRehydrateStorage: the local blocksHeight after the second validation,
\* given the validated triggersHeight
ValidBlocksHeight(t, b) ==
    LET maxBlocksHeight == t - HEADER_HEIGHT
    IN  IF b > maxBlocksHeight
        THEN Max2(MIN_HEIGHT, Min2(maxBlocksHeight, DEFAULT_BLOCKS_HEIGHT))
        ELSE b

\* The callback onRehydrateStorage returns, run on the state read back from
\* storage (persisted values are whatever localStorage holds).
onRehydrateStorage ==
    /\ lastOp = "hydrate"
    /\ lastOp' = "onRehydrateStorage"
    /\ IF hasState /\ inBrowser
       THEN LET t == ValidTriggersHeight(triggersHeight, blocksHeight)
                b == ValidBlocksHeight(t, blocksHeight)
            IN  /\ triggersHeight' = t
                /\ blocksHeight' = b
                /\ css' = [sidebarWidth |-> Px(sidebarWidth),
                           triggersHeight |-> Px(t),
                           blocksHeight |-> Px(b)]
       ELSE UNCHANGED <<triggersHeight, blocksHeight, css>>
    /\ UNCHANGED <<inBrowser, sidebarWidth, hasState>>

SidebarIdle ==
    /\ inBrowser = TRUE
    /\ SidebarDefaults

-----------------------------------------------------------------------------
(* Folder drag and drop: sidebar/hooks/use-drag-drop.ts                    *)

MaxFolders == 3
MaxWorkflows == 2
NoFolder == 0
Folders == 1..MaxFolders
Workflows == 1..MaxWorkflows

\* The ancestors of folder id (id excluded) that a walk along parentId visits
\* before it reaches the root or comes back to a folder already seen.
RECURSIVE AncestorsFrom(_, _, _)
AncestorsFrom(p, id, seen) ==
    IF p[id] = NoFolder \/ p[id] \in seen
    THEN {}
    ELSE {p[id]} \cup AncestorsFrom(p, p[id], seen \cup {p[id]})

Ancestors(p, id) == AncestorsFrom(p, id, {})

\* No folder is its own ancestor.
Acyclic(p) == \A f \in Folders : f \notin Ancestors(p, f)

\* t lies strictly below d in the folder tree.
IsDescendant(p, t, d) == t # NoFolder /\ t # d /\ d \in Ancestors(p, t)

\* useFolderStore.getFolderPath: the folders from the root down to folderId,
\* folderId included (the store walks parentId upwards and prepends).
RECURSIVE getFolderPath(_, _)
getFolderPath(p, folderId) ==
    IF folderId = NoFolder
    THEN <<>>
    ELSE Append(getFolderPath(p, p[folderId]), folderId)

\* The walk of getFolderPath ends: folderId is not on a parentId cycle.
PathEnds(p, folderId) == folderId \notin Ancestors(p, folderId)
                         /\ \A a \in Ancestors(p, folderId) : a \notin Ancestors(p, a)

NoDrop == [kind |-> "none", dragged |-> NoFolder, target |-> NoFolder,
           intoDescendant |-> FALSE, called |-> FALSE]

\* handleFolderMove: TRUE when the move is refused
MoveRefused(p, draggedFolderId, targetFolderId) ==
    LET draggedFolderPath == getFolderPath(p, draggedFolderId)
    IN  /\ targetFolderId # NoFolder
        /\ \E i \in DOMAIN draggedFolderPath : draggedFolderPath[i] = targetFolderId

\* handleFolderDrop with 'workflow-ids' data: handleWorkflowDrop moves the
\* workflows one by one and stops at the first updateWorkflow that throws.
DropWorkflows(targetFolderId) ==
    \E workflowIds \in (SUBSET Workflows) \ {{}} :
    \E moved \in SUBSET workflowIds :
        /\ workflowFolder' = [w \in Workflows |->
                                IF w \in moved THEN targetFolderId ELSE workflowFolder[w]]
        /\ dragOverFolderId' = NoFolder
        /\ rootDragOver' = FALSE
        /\ lastDrop' = [NoDrop EXCEPT !.kind = "workflows", !.target = targetFolderId]
        /\ UNCHANGED parent

\* handleFolderDrop with 'folder-id' data: handleFolderMove, then
\* updateFolderAPI(draggedFolderId, {parentId: targetFolderId}), which may fail.
DropFolder(folderIdData, targetFolderId) ==
    /\ PathEnds(parent, folderIdData)
    /\ dragOverFolderId' = NoFolder
    /\ rootDragOver' = FALSE
    /\ UNCHANGED workflowFolder
    /\ LET called == /\ targetFolderId # folderIdData
                     /\ ~MoveRefused(parent, folderIdData, targetFolderId)
       IN  /\ lastDrop' = [kind |-> "folder", dragged |-> folderIdData,
                           target |-> targetFolderId,
                           intoDescendant |-> IsDescendant(parent, targetFolderId, folderIdData),
                           called |-> called]
           /\ \E apiOk \in BOOLEAN :
                parent' = IF called /\ apiOk
                          THEN [parent EXCEPT ![folderIdData] = targetFolderId]
                          ELSE parent

handleFolderDrop ==
    \E targetFolderId \in Folders \cup {NoFolder} :
        \/ DropWorkflows(targetFolderId)
        \/ \E folderIdData \in Folders : DropFolder(folderIdData, targetFolderId)

\* createFolderDragHandlers(folderId).onDragOver / onDragLeave
FolderDragOver ==
    /\ \E folderId \in Folders : dragOverFolderId' = folderId
    /\ UNCHANGED <<parent, workflowFolder, rootDragOver, lastDrop>>

FolderDragLeave ==
    /\ dragOverFolderId' = NoFolder
    /\ UNCHANGED <<parent, workflowFolder, rootDragOver, lastDrop>>

\* createRootDragHandlers().onDragOver / onDragLeave
RootDragOver ==
    /\ rootDragOver' = TRUE
    /\ UNCHANGED <<parent, workflowFolder, dragOverFolderId, lastDrop>>

RootDragLeave ==
    /\ rootDragOver' = FALSE
    /\ UNCHANGED <<parent, workflowFolder, dragOverFolderId, lastDrop>>

\* Any folder tree and any placement of the workflows.
FolderInit ==
    /\ parent \in [Folders -> Folders \cup {NoFolder}]
    /\ Acyclic(parent)
    /\ workflowFolder \in [Workflows -> Folders \cup {NoFolder}]
    /\ dragOverFolderId = NoFolder
    /\ rootDragOver = FALSE
    /\ lastDrop = NoDrop

FolderIdle ==
    /\ parent = [f \in Folders |-> NoFolder]
    /\ workflowFolder = [w \in Workflows |-> NoFolder]
    /\ dragOverFolderId = NoFolder
    /\ rootDragOver = FALSE
    /\ lastDrop = NoDrop

-----------------------------------------------------------------------------
(* Copilot file attachments: user-input/hooks/use-file-attachments.ts      *)

MaxFiles == 2

\* processFiles is called by handleFileChange (the file picker) and by
\* handleDrop; the two invocations may overlap.
Calls == {"handleFileChange", "handleDrop"}

\* The files a FileList may hold: two images and one file that is no image.
FileKinds == {[name |-> "a.png", image |-> TRUE],
              [name |-> "b.png", image |-> TRUE],
              [name |-> "c.txt", image |-> FALSE]}

FileLists == UNION {[1..n -> FileKinds] : n \in 1..MaxFiles}

IdleCall == [pc |-> "idle", fileList |-> <<>>, i |-> 0, tempId |-> 0]

NoEvent == [kind |-> "none", id |-> 0]

\* setAttachedFiles((prev) => [...prev, tempFile])
AddTempFile(prev, id, file) ==
    Append(prev, [id |-> id, name |-> file.name, uploading |-> TRUE, key |-> ""])

\* A rollback that drops every attachment of the same name.
RollbackByName(prev, id) ==
    LET gone == {prev[k].name : k \in {j \in DOMAIN prev : prev[j].id = id}}
    IN  SelectSeq(prev, LAMBDA f : f.name \notin gone)

\* catch: setAttachedFiles((prev) => prev.filter((f) => f.id !== tempFile.id))
Rollback(prev, id) == SelectSeq(prev, LAMBDA f : f.id # id)

\* setAttachedFiles((prev) => prev.map(...)): the upload of tempFile is done
MarkUploaded(prev, id) ==
    [k \in DOMAIN prev |->
        IF prev[k].id = id
        THEN [prev[k] EXCEPT !.uploading = FALSE, !.key = "key"]
        ELSE prev[k]]

\* The index of the first image of fileList at or after i (Len + 1 if none):
\* the for loop skips every file whose type is not image/*.
RECURSIVE NextImage(_, _)
NextImage(fileList, i) ==
    IF i > Len(fileList) \/ fileList[i].image
    THEN i
    ELSE NextImage(fileList, i + 1)

\* The for loop of processFiles from index i up to its next await: skip the
\* files that are no images, add the temp file of the first image and request
\* its presigned URL; the loop ends when no image is left.
LoopFrom(c, files, fileList, i) ==
    LET j == NextImage(fileList, i)
    IN  IF j > Len(fileList)
        THEN /\ attachedFiles' = files
             /\ calls' = [calls EXCEPT ![c] = [IdleCall EXCEPT !.pc = "done"]]
             /\ nextId' = nextId
        ELSE /\ attachedFiles' = AddTempFile(files, nextId + 1, fileList[j])
             /\ calls' = [calls EXCEPT ![c] = [pc |-> "presign", fileList |-> fileList,
                                              i |-> j, tempId |-> nextId + 1]]
             /\ nextId' = nextId + 1

\* processFiles(fileList) is called
processFiles(c) ==
    /\ calls[c].pc = "idle"
    /\ \E fileList \in FileLists :
        IF ~userId
        THEN /\ calls' = [calls EXCEPT ![c] = [IdleCall EXCEPT !.pc = "done"]]
             /\ lastEvent' = [kind |-> "noUser", id |-> 0]
             /\ UNCHANGED <<attachedFiles, nextId>>
        ELSE /\ LoopFrom(c, attachedFiles, fileList, 1)
             /\ lastEvent' = [kind |-> "started", id |-> 0]
    /\ UNCHANGED userId

\* The request of the presigned URL settles: an OK response starts the PUT; a
\* non-OK response or a thrown error (fetch or json) lands in the catch block.
PresignedSettles(c) ==
    /\ calls[c].pc = "presign"
    /\ \E outcome \in {"ok", "notOk", "throws"} :
        IF outcome = "ok"
        THEN /\ calls' = [calls EXCEPT ![c].pc = "put"]
             /\ lastEvent' = [kind |-> "presigned", id |-> calls[c].tempId]
             /\ UNCHANGED <<attachedFiles, nextId>>
        ELSE /\ LoopFrom(c, Rollback(attachedFiles, calls[c].tempId),
                         calls[c].fileList, calls[c].i + 1)
             /\ lastEvent' = [kind |-> "presignFailed", id |-> calls[c].tempId]
    /\ UNCHANGED userId

\* The PUT upload settles.
UploadSettles(c) ==
    /\ calls[c].pc = "put"
    /\ \E outcome \in {"ok", "notOk", "throws"} :
        IF outcome = "ok"
        THEN /\ LoopFrom(c, MarkUploaded(attachedFiles, calls[c].tempId),
                         calls[c].fileList, calls[c].i + 1)
             /\ lastEvent' = [kind |-> "uploaded", id |-> calls[c].tempId]
        ELSE /\ LoopFrom(c, Rollback(attachedFiles, calls[c].tempId),
                         calls[c].fileList, calls[c].i + 1)
             /\ lastEvent' = [kind |-> "uploadFailed", id |-> calls[c].tempId]
    /\ UNCHANGED userId

\* removeFile(fileId)
removeFile ==
    /\ \E k \in DOMAIN attachedFiles :
        /\ attachedFiles' = SelectSeq(attachedFiles, LAMBDA f : f.id # attachedFiles[k].id)
        /\ lastEvent' = [kind |-> "removed", id |-> attachedFiles[k].id]
    /\ UNCHANGED <<userId, calls, nextId>>

\* clearAttachedFiles()
clearAttachedFiles ==
    /\ attachedFiles # <<>>
    /\ attachedFiles' = <<>>
    /\ lastEvent' = [kind |-> "cleared", id |-> 0]
    /\ UNCHANGED <<userId, calls, nextId>>

UploadInit ==
    /\ userId \in BOOLEAN
    /\ attachedFiles = <<>>
    /\ calls = [c \in Calls |-> IdleCall]
    /\ nextId = 0
    /\ lastEvent = NoEvent

UploadIdle ==
    /\ userId = TRUE
    /\ attachedFiles = <<>>
    /\ calls = [c \in Calls |-> IdleCall]
    /\ nextId = 0
    /\ lastEvent = NoEvent

-----------------------------------------------------------------------------
(* Copilot component: copilot/copilot.tsx and                              *)
(* copilot/hooks/use-copilot-initialization.ts                             *)

Null == "null"
WorkflowIds == {"w1", "w2"}

\* What the component reads from the stores and from its own state when it
\* renders; the effects of that render close over these values.
Snapshot ==
    [activeWorkflowId |-> activeWorkflowId,
     isLoadingChats |-> isLoadingChats,
     chatsLoadedForWorkflow |-> chatsLoadedForWorkflow,
     isSendingMessage |-> isSendingMessage,
     isInitialized |-> isInitialized]

NoStep == [kind |-> "store", setIsInitializedFalse |-> FALSE, setCopilotWorkflowId |-> Null,
           loadChats |-> FALSE, abortMessage |-> FALSE]

\* use-copilot-initialization.ts, the effect "Initialize on mount": its condition
MountInitCondition(p, hasMounted) ==
    /\ p.activeWorkflowId # Null
    /\ ~hasMounted
    /\ ~p.isSendingMessage

\* The workflow-change condition without the streaming check.
WorkflowChangeConditionWhileSending(p, hasMounted, lastWorkflowId) ==
    /\ p.activeWorkflowId # Null
    /\ p.activeWorkflowId # lastWorkflowId
    /\ hasMounted
    /\ lastWorkflowId # Null

\* use-copilot-initialization.ts, the effect "Initialize the component": the
\* condition of a genuine workflow change
WorkflowChangeCondition(p, hasMounted, lastWorkflowId) ==
    /\ p.activeWorkflowId # Null
    /\ p.activeWorkflowId # lastWorkflowId
    /\ hasMounted
    /\ lastWorkflowId # Null
    /\ ~p.isSendingMessage

\* the same effect: the condition to mark the hook initialized
ChatsLoadedCondition(p) ==
    /\ p.activeWorkflowId # Null
    /\ ~p.isLoadingChats
    /\ p.chatsLoadedForWorkflow = p.activeWorkflowId
    /\ ~p.isInitialized

\* The dependency arrays of the three effects.
MountInitDeps(p) == <<p.activeWorkflowId, p.isSendingMessage>>
InitializeDeps(p) == <<p.activeWorkflowId, p.isLoadingChats, p.chatsLoadedForWorkflow,
                       p.isInitialized, p.isSendingMessage>>
CleanupDeps(p) == <<p.isSendingMessage>>

\* copilot.tsx, "Cleanup on component unmount": what the cleanup function of
\* the effect does when React runs it (old are the values it closed over)
CleanupAborts(old) == old.isSendingMessage

\* The effects of one commit, in the order of their declaration. old and new
\* are the values of the previous and of this render; first is TRUE on mount.
\* The refs are read and written in place; setIsInitialized takes effect at the
\* next render.
RunEffects(old, new, first, hasMounted0, lastWorkflowId0, kind) ==
    LET runCleanup == ~first /\ CleanupDeps(old) # CleanupDeps(new)
        abort == runCleanup /\ CleanupAborts(old)
        \* effect "Initialize on mount"
        e1 == (first \/ MountInitDeps(old) # MountInitDeps(new))
              /\ MountInitCondition(new, hasMounted0)
        hasMounted1 == hasMounted0 \/ e1
        lastWorkflowId1 == IF e1 THEN Null ELSE lastWorkflowId0
        \* effect "Initialize the component"
        run2 == first \/ InitializeDeps(old) # InitializeDeps(new)
        e2 == run2 /\ WorkflowChangeCondition(new, hasMounted1, lastWorkflowId1)
        lastWorkflowId2 == IF e2 THEN new.activeWorkflowId ELSE lastWorkflowId1
        e3 == run2 /\ ChatsLoadedCondition(new)
        lastWorkflowId3 == IF e3 THEN new.activeWorkflowId ELSE lastWorkflowId2
    IN  /\ hasMountedRef' = hasMounted1
        /\ lastWorkflowIdRef' = lastWorkflowId3
        /\ isInitialized' = IF e3 THEN TRUE
                            ELSE IF e1 \/ e2 THEN FALSE
                            ELSE new.isInitialized
        /\ copilotWorkflowId' = IF e1 \/ e2 THEN new.activeWorkflowId ELSE copilotWorkflowId
        /\ initFor' = IF e1 \/ e2 THEN new.activeWorkflowId
                      ELSE IF first THEN Null ELSE initFor
        /\ lastStep' = [kind |-> kind,
                        setIsInitializedFalse |-> e1 \/ e2,
                        setCopilotWorkflowId |-> IF e1 \/ e2 THEN new.activeWorkflowId ELSE Null,
                        loadChats |-> e1 \/ e2,
                        abortMessage |-> abort]

storeVars == <<activeWorkflowId, isLoadingChats, chatsLoadedForWorkflow, isSendingMessage>>

\* The component mounts: first render, fresh state and refs, every effect runs.
Mount ==
    /\ ~mounted
    /\ mounted' = TRUE
    /\ LET new == [Snapshot EXCEPT !.isInitialized = FALSE]
       IN  /\ rendered' = new
           /\ RunEffects(new, new, TRUE, FALSE, Null, "mount")
    /\ UNCHANGED storeVars

\* A store value or isInitialized changed: the component renders again and the
\* effects whose dependencies changed run (their cleanups first).
Render ==
    /\ mounted
    /\ rendered # Snapshot
    /\ rendered' = Snapshot
    /\ RunEffects(rendered, Snapshot, FALSE, hasMountedRef, lastWorkflowIdRef, "render")
    /\ UNCHANGED <<storeVars, mounted>>

\* The component unmounts: the cleanup of every effect runs.
Unmount ==
    /\ mounted
    /\ mounted' = FALSE
    /\ lastStep' = [NoStep EXCEPT !.kind = "unmount", !.abortMessage = CleanupAborts(rendered)]
    /\ UNCHANGED <<storeVars, copilotWorkflowId, rendered, isInitialized, lastWorkflowIdRef,
                   hasMountedRef, initFor>>

hookVars == <<copilotWorkflowId, mounted, rendered, isInitialized, lastWorkflowIdRef,
              hasMountedRef, initFor>>

\* The stores change (navigation, the chat list loading, a message streaming).
SetActiveWorkflowId ==
    /\ \E id \in WorkflowIds \cup {Null} : id # activeWorkflowId /\ activeWorkflowId' = id
    /\ lastStep' = NoStep
    /\ UNCHANGED <<isLoadingChats, chatsLoadedForWorkflow, isSendingMessage, hookVars>>

StartLoadingChats ==
    /\ ~isLoadingChats
    /\ isLoadingChats' = TRUE
    /\ lastStep' = NoStep
    /\ UNCHANGED <<activeWorkflowId, chatsLoadedForWorkflow, isSendingMessage, hookVars>>

ChatsLoaded ==
    /\ isLoadingChats
    /\ isLoadingChats' = FALSE
    /\ \E id \in WorkflowIds : chatsLoadedForWorkflow' = id
    /\ lastStep' = NoStep
    /\ UNCHANGED <<activeWorkflowId, isSendingMessage, hookVars>>

SetIsSendingMessage ==
    /\ isSendingMessage' = ~isSendingMessage
    /\ lastStep' = NoStep
    /\ UNCHANGED <<activeWorkflowId, isLoadingChats, chatsLoadedForWorkflow, hookVars>>

CopilotStart ==
    /\ isLoadingChats = FALSE
    /\ chatsLoadedForWorkflow = Null
    /\ isSendingMessage = FALSE
    /\ copilotWorkflowId = Null
    /\ mounted = FALSE
    /\ isInitialized = FALSE
    /\ lastWorkflowIdRef = Null
    /\ hasMountedRef = FALSE
    /\ initFor = Null
    /\ lastStep = NoStep
    /\ rendered = [Snapshot EXCEPT !.isInitialized = FALSE]

CopilotInit ==
    /\ activeWorkflowId \in WorkflowIds \cup {Null}
    /\ CopilotStart

CopilotIdle ==
    /\ activeWorkflowId = Null
    /\ CopilotStart

-----------------------------------------------------------------------------
(* Enabled models: user-input/hooks/use-model-selection.ts and             *)
(* copilot/hooks/use-copilot-initialization.ts                             *)

MaxSelectionRequests == 3
MaxEffectRuns == 3

\* Three of the models of DEFAULT_ENABLED_MODELS, in the order of its keys.
ModelOrder == <<"gpt-4o", "gpt-5", "o3">>
ModelIds == {ModelOrder[k] : k \in DOMAIN ModelOrder}
DEFAULT_ENABLED_MODELS == [m \in ModelIds |-> m # "gpt-4o"]

None == <<>>
Some(x) == <<x>>

\* Object.entries(modelsMap).filter(([_, enabled]) => enabled).map(([modelId]) => modelId)
EnabledArray(modelsMap) == SelectSeq(ModelOrder, LAMBDA m : modelsMap[m])

\* The bodies /api/copilot/user-models may answer with: data.enabledModels is a
\* map, or is missing.
ModelMaps == [ModelIds -> BOOLEAN]
EmptyMap == [m \in ModelIds |-> FALSE]
ResponseBodies ==
    {[present |-> TRUE, enabledModels |-> m] : m \in ModelMaps}
    \cup {[present |-> FALSE, enabledModels |-> EmptyMap]}

\* data.enabledModels || fallback
ModelsMapOr(body, fallback) == IF body.present THEN body.enabledModels ELSE fallback
Outcomes == {"ok", "notOk", "throws"}

\* A guard that forgets isFetchingRef.
MayFetchIgnoringInFlight(models, fetching) == models = None

\* fetchEnabledModelsOnce: the early return
MayFetch(models, fetching) == models = None /\ ~fetching

\* The dropdown opens: fetchEnabledModelsOnce() runs up to its await.
fetchEnabledModelsOnce ==
    /\ selectionRequests < MaxSelectionRequests
    /\ IF MayFetch(enabledModels, isFetchingRef)
       THEN /\ isFetchingRef' = TRUE
            /\ selectionInFlight' = selectionInFlight + 1
            /\ selectionRequests' = selectionRequests + 1
       ELSE UNCHANGED <<isFetchingRef, selectionInFlight, selectionRequests>>
    /\ UNCHANGED <<enabledModels, hasLoadedModelsRef, loadState, loadRequests, loadSetCalls,
                   lastLoad, effectRuns>>

\* The request of fetchEnabledModelsOnce settles; finally resets isFetchingRef.
SelectionFetchSettles ==
    /\ selectionInFlight > 0
    /\ selectionInFlight' = selectionInFlight - 1
    /\ isFetchingRef' = FALSE
    /\ \E outcome \in Outcomes, body \in ResponseBodies :
        enabledModels' =
            IF outcome = "ok"
            THEN Some(EnabledArray(ModelsMapOr(body, EmptyMap)))
            ELSE enabledModels
    /\ UNCHANGED <<selectionRequests, hasLoadedModelsRef, loadState, loadRequests,
                   loadSetCalls, lastLoad, effectRuns>>

\* A guard that never looks at hasLoadedModelsRef.
MayLoadAlways(hasLoaded) == TRUE

\* loadEnabledModels: the early return
MayLoad(hasLoaded) == ~hasLoaded

\* The effect of useCopilotInitialization runs (on mount, and again whenever
\* setEnabledModels changes) and calls loadEnabledModels() up to its await.
loadEnabledModels ==
    /\ effectRuns < MaxEffectRuns
    /\ loadState # "inFlight"
    /\ effectRuns' = effectRuns + 1
    /\ IF MayLoad(hasLoadedModelsRef)
       THEN /\ hasLoadedModelsRef' = TRUE
            /\ loadState' = "inFlight"
            /\ loadRequests' = loadRequests + 1
            /\ loadSetCalls' = 0
       ELSE UNCHANGED <<hasLoadedModelsRef, loadState, loadRequests, loadSetCalls>>
    /\ UNCHANGED <<enabledModels, isFetchingRef, selectionInFlight, selectionRequests, lastLoad>>

\* loadEnabledModels: the argument of its setEnabledModels call
LoadedArray(outcome, body) ==
    IF outcome = "ok"
    THEN EnabledArray(ModelsMapOr(body, DEFAULT_ENABLED_MODELS))
    ELSE EnabledArray(DEFAULT_ENABLED_MODELS)

\* The request of loadEnabledModels settles: each of the three paths (non-OK,
\* OK, catch) calls setEnabledModels once.
LoadFetchSettles ==
    /\ loadState = "inFlight"
    /\ loadState' = "settled"
    /\ \E outcome \in Outcomes, body \in ResponseBodies :
        /\ enabledModels' = Some(LoadedArray(outcome, body))
        /\ lastLoad' = [outcome |-> outcome, arg |-> LoadedArray(outcome, body)]
    /\ loadSetCalls' = loadSetCalls + 1
    /\ UNCHANGED <<isFetchingRef, selectionInFlight, selectionRequests, hasLoadedModelsRef,
                   loadRequests, effectRuns>>

ModelsInit ==
    /\ enabledModels = None
    /\ isFetchingRef = FALSE
    /\ selectionInFlight = 0
    /\ selectionRequests = 0
    /\ hasLoadedModelsRef = FALSE
    /\ loadState = "none"
    /\ loadRequests = 0
    /\ loadSetCalls = 0
    /\ lastLoad = [outcome |-> "none", arg |-> <<>>]
    /\ effectRuns = 0

-----------------------------------------------------------------------------
(* Specifications                                                          *)

\* The sidebar store driven by its setters, from the defaults.
Init ==
    /\ inBrowser \in BOOLEAN
    /\ SidebarDefaults
    /\ FolderIdle /\ UploadIdle /\ CopilotIdle /\ ModelsInit

Next ==
    \/ SetSidebarWidth /\ UNCHANGED <<folderVars, uploadVars, copilotVars, modelVars>>
    \/ SetTriggersHeight /\ UNCHANGED <<folderVars, uploadVars, copilotVars, modelVars>>
    \/ SetBlocksHeight /\ UNCHANGED <<folderVars, uploadVars, copilotVars, modelVars>>

Spec == Init /\ [][Next]_vars

\* Rehydration of the sidebar store from an arbitrary persisted state.
RehydrateInit ==
    /\ inBrowser \in BOOLEAN
    /\ hasState \in BOOLEAN
    /\ sidebarWidth \in {MIN_SIDEBAR_WIDTH, MAX_SIDEBAR_WIDTH}
    /\ IF hasState
       THEN triggersHeight \in HeightArgs /\ blocksHeight \in HeightArgs
       ELSE triggersHeight = DEFAULT_TRIGGERS_HEIGHT /\ blocksHeight = DEFAULT_BLOCKS_HEIGHT
    /\ css = CssUnset
    /\ lastOp = "hydrate"
    /\ FolderIdle /\ UploadIdle /\ CopilotIdle /\ ModelsInit

RehydrateNext ==
    onRehydrateStorage /\ UNCHANGED <<folderVars, uploadVars, copilotVars, modelVars>>

SpecRehydrate == RehydrateInit /\ [][RehydrateNext]_vars

\* Folder drag and drop on any folder tree.
FolderSpecInit ==
    /\ SidebarIdle /\ FolderInit /\ UploadIdle /\ CopilotIdle /\ ModelsInit

FolderNext ==
    \/ handleFolderDrop /\ UNCHANGED <<sidebarVars, uploadVars, copilotVars, modelVars>>
    \/ FolderDragOver /\ UNCHANGED <<sidebarVars, uploadVars, copilotVars, modelVars>>
    \/ FolderDragLeave /\ UNCHANGED <<sidebarVars, uploadVars, copilotVars, modelVars>>
    \/ RootDragOver /\ UNCHANGED <<sidebarVars, uploadVars, copilotVars, modelVars>>
    \/ RootDragLeave /\ UNCHANGED <<sidebarVars, uploadVars, copilotVars, modelVars>>

SpecFolders == FolderSpecInit /\ [][FolderNext]_vars

\* The file attachments of the copilot input.
UploadSpecInit ==
    /\ SidebarIdle /\ FolderIdle /\ UploadInit /\ CopilotIdle /\ ModelsInit

UploadNext ==
    \/ \E c \in Calls : processFiles(c)
                        /\ UNCHANGED <<sidebarVars, folderVars, copilotVars, modelVars>>
    \/ \E c \in Calls : PresignedSettles(c)
                        /\ UNCHANGED <<sidebarVars, folderVars, copilotVars, modelVars>>
    \/ \E c \in Calls : UploadSettles(c)
                        /\ UNCHANGED <<sidebarVars, folderVars, copilotVars, modelVars>>
    \/ removeFile /\ UNCHANGED <<sidebarVars, folderVars, copilotVars, modelVars>>
    \/ clearAttachedFiles /\ UNCHANGED <<sidebarVars, folderVars, copilotVars, modelVars>>

SpecUpload == UploadSpecInit /\ [][UploadNext]_vars

\* The Copilot component with useCopilotInitialization. React renders again
\* after every change of a value the component reads.
CopilotSpecInit ==
    /\ SidebarIdle /\ FolderIdle /\ UploadIdle /\ CopilotInit /\ ModelsInit

RenderStep == Render /\ UNCHANGED <<sidebarVars, folderVars, uploadVars, modelVars>>

CopilotNext ==
    \/ Mount /\ UNCHANGED <<sidebarVars, folderVars, uploadVars, modelVars>>
    \/ RenderStep
    \/ Unmount /\ UNCHANGED <<sidebarVars, folderVars, uploadVars, modelVars>>
    \/ SetActiveWorkflowId /\ UNCHANGED <<sidebarVars, folderVars, uploadVars, modelVars>>
    \/ StartLoadingChats /\ UNCHANGED <<sidebarVars, folderVars, uploadVars, modelVars>>
    \/ ChatsLoaded /\ UNCHANGED <<sidebarVars, folderVars, uploadVars, modelVars>>
    \/ SetIsSendingMessage /\ UNCHANGED <<sidebarVars, folderVars, uploadVars, modelVars>>

SpecCopilot == CopilotSpecInit /\ [][CopilotNext]_vars /\ WF_vars(RenderStep)

\* The two loaders of the enabled models, sharing the copilot store.
ModelsSpecInit ==
    /\ SidebarIdle /\ FolderIdle /\ UploadIdle /\ CopilotIdle /\ ModelsInit

ModelsNext ==
    \/ fetchEnabledModelsOnce /\ UNCHANGED <<sidebarVars, folderVars, uploadVars, copilotVars>>
    \/ SelectionFetchSettles /\ UNCHANGED <<sidebarVars, folderVars, uploadVars, copilotVars>>
    \/ loadEnabledModels /\ UNCHANGED <<sidebarVars, folderVars, uploadVars, copilotVars>>
    \/ LoadFetchSettles /\ UNCHANGED <<sidebarVars, folderVars, uploadVars, copilotVars>>

SpecModels == ModelsSpecInit /\ [][ModelsNext]_vars

-----------------------------------------------------------------------------
(* Claims about the sidebar store                                          *)

HeightConstraint == triggersHeight >= blocksHeight + HEADER_HEIGHT

\* C1: the store keeps triggersHeight >= blocksHeight + HEADER_HEIGHT in every
\* state: the default state and every state after any sequence of setter calls.
C1_ConstraintAlways == HeightConstraint

C3_RehydrateValidates ==
    (lastOp = "onRehydrateStorage" /\ inBrowser /\ hasState) =>
        /\ HeightConstraint
        /\ css.triggersHeight = Px(triggersHeight)
        /\ css.blocksHeight = Px(blocksHeight)

\* A persisted state that violated the constraint was repaired above the default.
C3_Witness ==
    /\ lastOp = "onRehydrateStorage" /\ inBrowser /\ hasState
    /\ triggersHeight = blocksHeight + HEADER_HEIGHT
    /\ triggersHeight > DEFAULT_TRIGGERS_HEIGHT
    /\ css.triggersHeight = Px(triggersHeight)

-----------------------------------------------------------------------------
(* Claims about folder drag and drop                                       *)

\* C4: handleFolderMove prevents moving a folder into its own descendant: a
\* drop of folder D onto a descendant T of D does not call updateFolderAPI, so
\* the parent relation stays acyclic after any sequence of folder drops.
C4_NoMoveIntoDescendant ==
    /\ (lastDrop.kind = "folder" /\ lastDrop.intoDescendant) => ~lastDrop.called
    /\ Acyclic(parent)

-----------------------------------------------------------------------------
(* Claims about the file attachments                                       *)

Ids(files) == {files[k].id : k \in DOMAIN files}

\* C5: when the presigned-URL request or the PUT upload of a file fails, the
\* attachment added for that file is removed from attachedFiles and every other
\* attachment is left unchanged (the attachments that were there before the
\* failure, in their order, are exactly the ones left besides a temp file the
\* loop adds next).
C5_UploadFailureRolledBack ==
    [][lastEvent'.kind \in {"presignFailed", "uploadFailed"} =>
        SelectSeq(attachedFiles', LAMBDA f : f.id <= nextId)
            = SelectSeq(attachedFiles, LAMBDA f : f.id # lastEvent'.id)]_vars

\* A failed upload was rolled back while another attachment of the same name
\* stayed in the list.
C5_Witness ==
    /\ lastEvent.kind \in {"presignFailed", "uploadFailed"}
    /\ lastEvent.id \notin Ids(attachedFiles)
    /\ \E k \in DOMAIN attachedFiles :
        /\ attachedFiles[k].id < lastEvent.id
        /\ attachedFiles[k].name = "a.png"

-----------------------------------------------------------------------------
(* Claims about the copilot component                                      *)

\* C6: useCopilotInitialization calls neither loadChats nor
\* setCopilotWorkflowId while isSendingMessage is true.
C6_NoLoadWhileSending ==
    (lastStep.loadChats \/ lastStep.setCopilotWorkflowId # Null) =>
        (~isSendingMessage /\ ~rendered.isSendingMessage)

\* The component rendered a workflow change while a message was streaming,
\* and the hook left the chats alone.
C6_Witness ==
    /\ lastStep.kind = "render"
    /\ isSendingMessage /\ rendered.isSendingMessage
    /\ hasMountedRef
    /\ lastWorkflowIdRef # Null
    /\ activeWorkflowId # Null
    /\ activeWorkflowId # lastWorkflowIdRef
    /\ rendered.activeWorkflowId = activeWorkflowId
    /\ ~lastStep.loadChats

\* Nothing is pending: the component has rendered the current store values.
Quiescent == mounted /\ rendered = Snapshot

\* C7: after mount, whenever activeWorkflowId changes to a different non-null
\* workflow, whether or not the initialization for the previous workflow had
\* completed, the hook, once isSendingMessage is false, sets isInitialized to
\* false and calls setCopilotWorkflowId(activeWorkflowId) and loadChats: once
\* the component has rendered with a workflow and no message streaming, its
\* last initialization is the one for that workflow.
C7_InitializedOnEveryWorkflowChange ==
    (Quiescent /\ activeWorkflowId # Null /\ ~isSendingMessage) =>
        (initFor = activeWorkflowId /\ copilotWorkflowId = activeWorkflowId)

\* C8: the cleanup of the effect "Cleanup on component unmount" calls
\* abortMessage if and only if the component unmounts while isSendingMessage
\* is true.
C8_AbortIffUnmountWhileSending ==
    lastStep.abortMessage <=> (lastStep.kind = "unmount" /\ rendered.isSendingMessage)

-----------------------------------------------------------------------------
(* Claims about the enabled models                                         *)

C10_LoadedOnceWithFallback ==
    /\ loadRequests <= 1
    /\ loadState = "settled" => loadSetCalls = 1
    /\ loadState # "settled" => loadSetCalls = 0
    /\ (loadState = "settled" /\ lastLoad.outcome \in {"notOk", "throws"}) =>
          lastLoad.arg = <<"gpt-5", "o3">>

\* The effect ran again after a failed fetch had fallen back to the defaults.
C10_Witness ==
    /\ loadState = "settled"
    /\ lastLoad.outcome = "notOk"
    /\ effectRuns >= 2
    /\ enabledModels = Some(<<"gpt-5", "o3">>)

=============================================================================
